---- MODULE Spec2Model ----
(***************************************************************************)
(* Model of the AI image editor front end (src/App.tsx: App and            *)
(* ImageEditor; src/components/Spinner.tsx: the Gemini service client).    *)
(*                                                                         *)
(* The drawing canvas is a W x H grid of RGBA pixels.  Pointer positions   *)
(* are the lattice points of that grid in buffer space.  A shape or stroke *)
(* covers a pixel when it covers the pixel's centre (no anti-aliasing).    *)
(* Opacities are counted in tenths (the slider's step), alpha in 0..255.   *)
(***************************************************************************)
EXTENDS Integers, Sequences, FiniteSets, TLC

VARIABLES
    \* the two canvases (imageCanvasRef, drawingCanvasRef)
    imageSize,        \* imageCanvas <<width, height>>
    base,             \* imageCanvas content: pixel -> <<r, g, b>>
    drawingSize,      \* drawingCanvas <<width, height>>
    mask,             \* drawingCanvas content: pixel -> <<r, g, b, a>>
    gco,              \* drawing context's globalCompositeOperation
    \* tool state
    activeTool, brushSize, brushOpacity,
    \* gesture refs
    isDrawing, lastPoint, shapeStartPoint, canvasSnapshot,
    \* handleAutoMask: busy flag, position, captured opacity, response image
    isMasking, maskPc, maskOpacity, maskImage,
    \* floodFill's locals while its loop runs
    fillPc, startPos, pixelStack, visited, drawingImageData,
    \* handleSubmit / handleUpscale: form state, results, busy flags, pending calls
    prompt, editedImage, upscaledImage, upscaleFactor,
    isLoading, isUpscaling,
    editPc,           \* "idle", or "request" while editImageWithMask is pending
    sentMask,         \* the mask image handed to editImageWithMask
    upscalePc,        \* "idle", or "request" while upscaleImage is pending
    upscaleArgs,      \* the <<image, factor>> handed to upscaleImage
    error,
    partial,          \* number of translucent draw calls made so far
    edits,            \* number of edit requests sent so far
    imagePc,          \* "none" (uploader shown), or the editor's image: "loading", "loaded", "failed"
    session,          \* number of ImageEditor instances mounted so far
    orphans,          \* calls still pending that were started by an unmounted instance
    natural,          \* <<width, height>> of the decoded image, once it has loaded
    resized,          \* what resizeImage returned for it
    saved,            \* per remote operation: <<mask, editedImage, upscaledImage>> when it was triggered
    last              \* the handler or callback that ran last

toolVars == <<activeTool, brushSize, brushOpacity>>
gestureVars == <<isDrawing, lastPoint, shapeStartPoint, canvasSnapshot>>
autoMaskVars == <<isMasking, maskPc, maskOpacity, maskImage>>
fillVars == <<fillPc, startPos, pixelStack, visited, drawingImageData>>
sizeVars == <<imageSize, drawingSize>>
sessionVars == <<imagePc, session, orphans, natural, resized>>

formVars == <<prompt, upscaleFactor>>
editVars == <<editedImage, isLoading, editPc, sentMask, edits>>
upscaleVars == <<upscaledImage, isUpscaling, upscalePc, upscaleArgs>>
remoteVars == <<formVars, editVars, upscaleVars, saved>>

vars == <<sessionVars, sizeVars, base, mask, gco, toolVars, gestureVars, autoMaskVars,
          fillVars, remoteVars, error, partial, last>>

\* null for points, images and call arguments; the null error message
NULL == <<>>
NoError == "none"

(* ---------------------------------------------------------------- bounds *)
W == 2
H == 1
MaxPartial == 2
MaxPromptLen == 1
MaxEdits == 1
FillW == 2
FillH == 2
MaxMasked == 2

\* the pixels of a canvas of size sz, and the pointer positions on it
Pixels(sz) == (0..(sz[1] - 1)) \X (0..(sz[2] - 1))
\* a sample of the lattice: the top edge, and the bottom right corner
Points(sz) == {<<x, IF x = sz[1] THEN sz[2] ELSE 0>> : x \in 0..sz[1]}

\* the longest side a loaded image is scaled down to
MAX_DIMENSION == 1024

Tools == {"brush", "eraser", "rectangle", "circle", "fill"}
\* slider: min 0.1, max 1, step 0.1 (src/App.tsx:511-519); the default 0.7, and 1
Opacities == {7, 10}
\* the line width in grid units (the slider's range is 5..100 pixels)
DefaultBrushSize == 2

(* ------------------------------------------------------------ pixel math *)
\* n / d rounded to the nearest integer, halves up (Math.round, n >= 0)
RoundDiv(n, d) == (2 * n + d) \div (2 * d)

\* n / d rounded to the nearest integer, halves to even (Uint8ClampedArray)
RoundEven(n, d) ==
    LET q == n \div d
        r == n % d
    IN  IF 2 * r < d THEN q
        ELSE IF 2 * r > d THEN q + 1
        ELSE IF q % 2 = 0 THEN q ELSE q + 1

(* ------------------------------------------- double arithmetic, resizeImage *)
\* significant bits of a double
MantissaBits == 53

\* binary digits are produced and consumed DigitBits at a time
DigitBits == 10
Base == 2 ^ DigitBits
\* digits of a quotient computed: enough for the leading zeros, the mantissa and a guard bit
QuotientDigits == 8

\* the first k digits (base Base) of the fraction rem / d, with what is left over
RECURSIVE LongDivision(_, _, _)
LongDivision(rem, d, k) ==
    IF k = 0 THEN [digits |-> <<>>, rem |-> rem]
    ELSE LET rest == LongDivision((rem * Base) % d, d, k - 1)
         IN  [digits |-> <<(rem * Base) \div d>> \o rest.digits, rem |-> rest.rem]

\* the bits of a sequence of digits, most significant first
BitsOf(digits) ==
    [i \in 1..(DigitBits * Len(digits)) |->
        (digits[((i - 1) \div DigitBits) + 1] \div (2 ^ (DigitBits - 1 - ((i - 1) % DigitBits)))) % 2]

\* a bit sequence without its leading zeros
Strip(bits) ==
    IF \A i \in 1..Len(bits) : bits[i] = 0 THEN <<>>
    ELSE SubSeq(bits, CHOOSE i \in 1..Len(bits) : bits[i] = 1 /\ \A j \in 1..(i - 1) : bits[j] = 0, Len(bits))

\* a bit sequence plus one
Increment(bits) ==
    IF \A i \in 1..Len(bits) : bits[i] = 1 THEN <<1>> \o [i \in 1..Len(bits) |-> 0]
    ELSE LET p == CHOOSE i \in 1..Len(bits) : bits[i] = 0 /\ \A j \in (i + 1)..Len(bits) : bits[j] = 1
         IN  [i \in 1..Len(bits) |-> IF i < p THEN bits[i] ELSE IF i = p THEN 1 ELSE 0]

\* the double nearest to bits * 2^-exp (ties to even), bits without leading
\* zeros; sticky says that the exact value lies above bits * 2^-exp
RoundToDouble(bits, exp, sticky) ==
    IF Len(bits) <= MantissaBits THEN [bits |-> bits, exp |-> exp]
    ELSE LET kept == SubSeq(bits, 1, MantissaBits)
             guard == bits[MantissaBits + 1]
             rest == sticky \/ \E i \in (MantissaBits + 2)..Len(bits) : bits[i] = 1
             up == guard = 1 /\ (rest \/ kept[MantissaBits] = 1)
         IN  [bits |-> IF up THEN Increment(kept) ELSE kept,
              exp |-> exp - (Len(bits) - MantissaBits)]

\* a / d in double arithmetic, for 0 < a < d
Divide(a, d) ==
    LET q == LongDivision(a, d, QuotientDigits)
    IN  RoundToDouble(Strip(BitsOf(q.digits)), DigitBits * QuotientDigits, q.rem # 0)

RECURSIVE ToInt(_)
ToInt(bits) == IF bits = <<>> THEN 0 ELSE 2 * ToInt(SubSeq(bits, 1, Len(bits) - 1)) + bits[Len(bits)]

\* the digits of a bit sequence, least significant first
DigitsOf(bits) ==
    LET count == (Len(bits) + DigitBits - 1) \div DigitBits
        pad == [i \in 1..(count * DigitBits - Len(bits)) |-> 0] \o bits
    IN  [k \in 1..count |-> ToInt(SubSeq(pad, (count - k) * DigitBits + 1, (count - k + 1) * DigitBits))]

\* the digits of digits * h + carry, most significant first
RECURSIVE TimesDigits(_, _, _)
TimesDigits(digits, h, carry) ==
    IF digits = <<>>
    THEN IF carry = 0 THEN <<>> ELSE TimesDigits(<<>>, h, carry \div Base) \o <<carry % Base>>
    ELSE LET a == carry + digits[1] * h
         IN  TimesDigits(Tail(digits), h, a \div Base) \o <<a % Base>>

\* h * x in double arithmetic, for a positive integer h
Times(h, x) == RoundToDouble(Strip(BitsOf(TimesDigits(DigitsOf(x.bits), h, 0))), x.exp, FALSE)

\* Math.round of a non-negative double: the integer part, plus one when the
\* fraction is a half or more
MathRound(x) ==
    LET whole == Len(x.bits) - x.exp
    IN  (IF whole > 0 THEN ToInt(SubSeq(x.bits, 1, whole)) ELSE 0)
        + (IF whole >= 0 /\ whole < Len(x.bits) THEN x.bits[whole + 1] ELSE 0)

\* variant: the scaled side is truncated instead of rounded
resizeImageTruncates(n) ==
    IF n[1] > MAX_DIMENSION \/ n[2] > MAX_DIMENSION
    THEN IF n[1] > n[2]
         THEN <<MAX_DIMENSION, (n[2] * MAX_DIMENSION) \div n[1]>>
         ELSE <<(n[1] * MAX_DIMENSION) \div n[2], MAX_DIMENSION>>
    ELSE n

\* resizeImage: the canvas size for an image of natural size n = <<width, height>>;
\* Math.round(height * (MAX_DIMENSION / width)) is computed in doubles
resizeImage(n) ==
    IF n[1] > MAX_DIMENSION \/ n[2] > MAX_DIMENSION
    THEN IF n[1] > n[2]
         THEN <<MAX_DIMENSION, MathRound(Times(n[2], Divide(MAX_DIMENSION, n[1])))>>
         ELSE <<MathRound(Times(n[1], Divide(MAX_DIMENSION, n[2]))), MAX_DIMENSION>>
    ELSE n

Transparent == <<0, 0, 0, 0>>

\* rgba(192, 132, 252, opacity): the accent colour at the configured opacity
Accent(op) == <<192, 132, 252, RoundDiv(255 * op, 10)>>

\* 'source-over': src composited over dst
SourceOver(src, dst) ==
    LET n == src[4] * 255 + dst[4] * (255 - src[4])
        ch(i) == RoundDiv(src[i] * src[4] * 255 + dst[i] * dst[4] * (255 - src[4]), n)
    IN  IF n = 0 THEN Transparent
        ELSE <<ch(1), ch(2), ch(3), RoundDiv(n, 255)>>

\* 'destination-out': dst kept where src is transparent
DestinationOut(src, dst) ==
    LET a == RoundDiv(dst[4] * (255 - src[4]), 255)
    IN  IF a = 0 THEN Transparent ELSE <<dst[1], dst[2], dst[3], a>>

Composite(op, src, dst) ==
    IF op = "destination-out" THEN DestinationOut(src, dst) ELSE SourceOver(src, dst)

\* a draw call: src composited with mode op onto the pixels of region
Draw(m, region, op, src) ==
    [p \in DOMAIN m |-> IF p \in region THEN Composite(op, src, m[p]) ELSE m[p]]

EmptyMask(sz) == [p \in Pixels(sz) |-> Transparent]

(* -------------------------------------------------------------- geometry *)
Min(a, b) == IF a < b THEN a ELSE b
Max(a, b) == IF a < b THEN b ELSE a
Sq(a) == a * a

\* ctx.fillRect(start.x, start.y, width, height) with width, height of any sign
RectPixels(sz, s, e) ==
    {p \in Pixels(sz) : /\ Min(s[1], e[1]) <= p[1] /\ p[1] < Max(s[1], e[1])
                    /\ Min(s[2], e[2]) <= p[2] /\ p[2] < Max(s[2], e[2])}

\* ctx.ellipse(centerX, centerY, radiusX, radiusY, ...) filled; coordinates doubled
EllipsePixels(sz, s, e) ==
    LET w == e[1] - s[1]
        h == e[2] - s[2]
    IN  {p \in Pixels(sz) :
            /\ w # 0 /\ h # 0
            /\ Sq(2 * p[1] + 1 - s[1] - e[1]) * Sq(h)
                 + Sq(2 * p[2] + 1 - s[2] - e[2]) * Sq(w) <= Sq(w) * Sq(h)}

\* a round-capped line of width lw from a to b; coordinates doubled
StrokePixels(sz, a, b, lw) ==
    LET ax == 2 * a[1]
        ay == 2 * a[2]
        dx == 2 * b[1] - ax
        dy == 2 * b[2] - ay
        len2 == Sq(dx) + Sq(dy)
        Near(p) ==
            LET cx == 2 * p[1] + 1 - ax
                cy == 2 * p[2] + 1 - ay
                dot == cx * dx + cy * dy
            IN  IF dot <= 0 THEN Sq(cx) + Sq(cy) <= Sq(lw)
                ELSE IF dot >= len2 THEN Sq(cx - dx) + Sq(cy - dy) <= Sq(lw)
                ELSE (Sq(cx) + Sq(cy)) * len2 - Sq(dot) <= Sq(lw) * len2
    IN  {p \in Pixels(sz) : Near(p)}

(* ------------------------------------------------------------ flood fill *)
Tolerance == 30

Abs(a) == IF a < 0 THEN -a ELSE a

InBounds(sz, p) == p[1] >= 0 /\ p[1] < sz[1] /\ p[2] >= 0 /\ p[2] < sz[2]

Undefined == <<"undefined">>

\* imageData.data[startIdx .. startIdx + 2], startIdx = (startY * width + startX) * 4:
\* a start point outside the image reads another pixel, or past the end of the data
StartColour(sz, img, s) ==
    LET idx == s[2] * sz[1] + s[1]
    IN  IF idx >= 0 /\ idx < sz[1] * sz[2]
        THEN img[<<idx % sz[1], idx \div sz[1]>>]
        ELSE Undefined

\* variant: the blue channel is not compared
WithinToleranceNoBlue(c, s) ==
    /\ s # Undefined
    /\ \A i \in 1..2 : Abs(c[i] - s[i]) <= Tolerance

\* Math.abs(r - startR) <= tolerance && ... for each of r, g, b
WithinTolerance(c, s) ==
    /\ s # Undefined
    /\ \A i \in 1..3 : Abs(c[i] - s[i]) <= Tolerance

\* [192, 132, 252, Math.round(255 * brushOpacity)]
FillColor(op) == <<192, 132, 252, RoundDiv(255 * op, 10)>>

Neighbours(p) ==
    << <<p[1] + 1, p[2]>>, <<p[1] - 1, p[2]>>, <<p[1], p[2] + 1>>, <<p[1], p[2] - 1>> >>

\* variant: no visited markers
FillStepNoVisited(f, sz, img, startRGB, color) ==
    LET n == Len(f.stack)
        p == f.stack[n]
        rest == SubSeq(f.stack, 1, n - 1)
    IN  IF ~InBounds(sz, p) THEN [f EXCEPT !.stack = rest]
        ELSE IF f.data[p][4] > 0 THEN [f EXCEPT !.stack = rest]
        ELSE IF WithinTolerance(img[p], startRGB)
             THEN [stack |-> rest \o Neighbours(p),
                   visited |-> f.visited,
                   data |-> [f.data EXCEPT ![p] = color]]
        ELSE [f EXCEPT !.stack = rest]

\* variant: no "skip if already masked" test
FillStepOverMasked(f, sz, img, startRGB, color) ==
    LET n == Len(f.stack)
        p == f.stack[n]
        rest == SubSeq(f.stack, 1, n - 1)
    IN  IF ~InBounds(sz, p) THEN [f EXCEPT !.stack = rest]
        ELSE IF p \in f.visited THEN [f EXCEPT !.stack = rest]
        ELSE IF WithinTolerance(img[p], startRGB)
             THEN [stack |-> rest \o Neighbours(p),
                   visited |-> f.visited \cup {p},
                   data |-> [f.data EXCEPT ![p] = color]]
        ELSE [f EXCEPT !.stack = rest, !.visited = @ \cup {p}]

\* one iteration of the while loop on f = [stack, visited, data]
FillStep(f, sz, img, startRGB, color) ==
    LET n == Len(f.stack)
        p == f.stack[n]
        rest == SubSeq(f.stack, 1, n - 1)
    IN  IF ~InBounds(sz, p) THEN [f EXCEPT !.stack = rest]
        ELSE IF p \in f.visited THEN [f EXCEPT !.stack = rest]
        ELSE IF f.data[p][4] > 0
             THEN [f EXCEPT !.stack = rest, !.visited = @ \cup {p}]
        ELSE IF WithinTolerance(img[p], startRGB)
             THEN [stack |-> rest \o Neighbours(p),
                   visited |-> f.visited \cup {p},
                   data |-> [f.data EXCEPT ![p] = color]]
        ELSE [f EXCEPT !.stack = rest, !.visited = @ \cup {p}]

RECURSIVE FillLoop(_, _, _, _, _)
FillLoop(f, sz, img, startRGB, color) ==
    IF f.stack = <<>> THEN f
    ELSE FillLoop(FillStep(f, sz, img, startRGB, color), sz, img, startRGB, color)

\* floodFill(startPos): the content put back on the drawing canvas
floodFill(sz, img, m, pos, op) ==
    FillLoop([stack |-> <<pos>>, visited |-> {}, data |-> m],
             sz, img, StartColour(sz, img, pos), FillColor(op)).data

(* ------------------------------------------------------- canvas handlers *)
\* drawLine(start, end): sets the context's composite operation, then strokes
drawLine(start, end) ==
    /\ gco' = (IF activeTool = "eraser" THEN "destination-out" ELSE "source-over")
    /\ mask' = Draw(mask, StrokePixels(drawingSize, start, end, brushSize),
                    gco', Accent(brushOpacity))

\* ctx.putImageData(data, 0, 0) on a canvas holding m: the pixels of data that
\* fall on the canvas replace what was there
putImageData(data, m) == [p \in DOMAIN m |-> IF p \in DOMAIN data THEN data[p] ELSE m[p]]

\* drawShape(start, end) on the restored snapshot m
drawShape(m, start, end) ==
    /\ gco' = "source-over"
    /\ mask' = Draw(m,
                    IF activeTool = "rectangle" THEN RectPixels(drawingSize, start, end)
                    ELSE IF activeTool = "circle" THEN EllipsePixels(drawingSize, start, end)
                    ELSE {},
                    "source-over", Accent(brushOpacity))

\* a translucent draw call is counted, and allowed while the count is in bounds
Translucent ==
    /\ brushOpacity < 10 => partial < MaxPartial
    /\ partial' = IF brushOpacity < 10 THEN partial + 1 ELSE partial

handleMouseDown(pos) ==
    /\ IF activeTool = "fill"
       THEN /\ mask' = floodFill(imageSize, base, mask, pos, brushOpacity)
            /\ UNCHANGED gestureVars
       ELSE /\ isDrawing' = TRUE
            /\ IF activeTool \in {"brush", "eraser"}
               THEN /\ lastPoint' = pos
                    /\ UNCHANGED <<shapeStartPoint, canvasSnapshot>>
               ELSE /\ shapeStartPoint' = pos
                    /\ canvasSnapshot' = mask
                    /\ UNCHANGED lastPoint
            /\ UNCHANGED mask
    /\ last' = "mouseDown"
    /\ UNCHANGED <<remoteVars, sessionVars, sizeVars, base, gco, toolVars, autoMaskVars, fillVars, error, partial>>

handleMouseMove(pos) ==
    /\ IF ~isDrawing
       THEN UNCHANGED <<mask, gco, lastPoint, partial>>
       ELSE IF activeTool \in {"brush", "eraser"}
       THEN /\ IF lastPoint # NULL
               THEN drawLine(lastPoint, pos) /\ Translucent
               ELSE UNCHANGED <<mask, gco, partial>>
            /\ lastPoint' = pos
       ELSE IF /\ activeTool \in {"rectangle", "circle"}
               /\ shapeStartPoint # NULL /\ canvasSnapshot # NULL
       THEN /\ drawShape(putImageData(canvasSnapshot, mask), shapeStartPoint, pos) /\ Translucent
            /\ UNCHANGED lastPoint
       ELSE UNCHANGED <<mask, gco, lastPoint, partial>>
    /\ last' = "mouseMove"
    /\ UNCHANGED <<remoteVars, sessionVars, sizeVars, base, toolVars, isDrawing, shapeStartPoint, canvasSnapshot,
                   autoMaskVars, fillVars, error>>

\* variant: the snapshot is not released
handleMouseUpKeepsSnapshot ==
    /\ isDrawing' = FALSE
    /\ lastPoint' = NULL
    /\ shapeStartPoint' = NULL
    /\ last' = "mouseUp"
    /\ UNCHANGED <<remoteVars, sessionVars, sizeVars, base, mask, gco, toolVars, canvasSnapshot,
                   autoMaskVars, fillVars, error, partial>>

\* bound to mouseup, mouseleave and touchend
handleMouseUp ==
    /\ isDrawing' = FALSE
    /\ lastPoint' = NULL
    /\ shapeStartPoint' = NULL
    /\ canvasSnapshot' = NULL
    /\ last' = "mouseUp"
    /\ UNCHANGED <<remoteVars, sessionVars, sizeVars, base, mask, gco, toolVars, autoMaskVars, fillVars, error, partial>>

\* ctx.clearRect over the whole canvas (not subject to the composite operation)
clearDrawing ==
    /\ mask' = EmptyMask(drawingSize)
    /\ last' = "clearDrawing"
    /\ UNCHANGED <<remoteVars, sessionVars, sizeVars, base, gco, toolVars, gestureVars, autoMaskVars, fillVars,
                   error, partial>>

setActiveTool(t) ==
    /\ t # activeTool
    /\ activeTool' = t
    /\ last' = "setActiveTool"
    /\ UNCHANGED <<remoteVars, sessionVars, sizeVars, base, mask, gco, brushSize, brushOpacity, gestureVars,
                   autoMaskVars, fillVars, error, partial>>

setBrushOpacity(o) ==
    /\ o # brushOpacity
    /\ brushOpacity' = o
    /\ last' = "setBrushOpacity"
    /\ UNCHANGED <<remoteVars, sessionVars, sizeVars, base, mask, gco, activeTool, brushSize, gestureVars,
                   autoMaskVars, fillVars, error, partial>>

(* ------------------------------------------------------------- auto-mask *)
White == <<255, 255, 255>>
Black == <<0, 0, 0>>

Undecodable == <<"undecodable">>

\* what generateBackgroundMask may resolve with, at the canvas's resolution
MaskResponses(sz) == [Pixels(sz) -> {White, Black}] \cup {Undecodable}

\* data[i] > 200 && data[i + 1] > 200 && data[i + 2] > 200
IsWhite(c) == c[1] > 200 /\ c[2] > 200 /\ c[3] > 200

\* the loop over tempCtx's image data: data[i + 3] = 255 * brushOpacity, or 0
Normalize(img, op) ==
    [p \in DOMAIN img |->
        IF IsWhite(img[p]) THEN <<192, 132, 252, RoundEven(255 * op, 10)>>
        ELSE <<img[p][1], img[p][2], img[p][3], 0>>]

\* the button is disabled while isMasking or isLoading
handleAutoMask ==
    /\ ~isMasking /\ ~isLoading
    /\ isMasking' = TRUE
    /\ error' = NoError
    /\ maskPc' = "request"
    /\ maskOpacity' = brushOpacity
    /\ last' = "handleAutoMask"
    /\ UNCHANGED <<formVars, editVars, upscaleVars, sessionVars, sizeVars, base, mask, gco, toolVars,
                   gestureVars, maskImage, fillVars, partial>>

\* generateBackgroundMask resolves: maskImage.src is set, decoding starts
autoMaskResolve(img) ==
    /\ maskPc = "request"
    /\ maskPc' = "decode"
    /\ maskImage' = img
    /\ last' = "autoMaskResolve"
    /\ UNCHANGED <<remoteVars, sessionVars, sizeVars, base, mask, gco, toolVars, gestureVars,
                   isMasking, maskOpacity, fillVars, error, partial>>

\* fileToBase64 or generateBackgroundMask rejects: the catch block
autoMaskReject ==
    /\ maskPc = "request"
    /\ maskPc' = "idle"
    /\ error' = "Failed to generate mask"
    /\ isMasking' = FALSE
    /\ saved' = [saved EXCEPT !.mask = NULL]
    /\ last' = "autoMaskReject"
    /\ UNCHANGED <<formVars, editVars, upscaleVars, sessionVars, sizeVars, base, mask, gco, toolVars, gestureVars,
                   maskOpacity, maskImage, fillVars, partial>>

\* width and height of an image
SizeOf(img) == <<Cardinality({p[1] : p \in DOMAIN img}), Cardinality({p[2] : p \in DOMAIN img})>>

\* tempCtx.drawImage(maskImage, 0, 0, width, height): the image scaled to sz
drawImageScaled(img, sz) ==
    [p \in Pixels(sz) |->
        img[<<(p[1] * SizeOf(img)[1]) \div sz[1], (p[2] * SizeOf(img)[2]) \div sz[2]>>]]

\* clearDrawing(); ctx.drawImage(tempCanvas, 0, 0) under the context's composite operation
MergeAutoMask(img, op, mode) ==
    [p \in DOMAIN img |-> Composite(mode, Normalize(img, op)[p], Transparent)]

\* maskImage.onload. On a canvas with no pixels getImageData (line 331) throws
\* IndexSizeError: the handler ends there, before setIsMasking(false).
autoMaskOnload ==
    /\ maskPc = "decode" /\ maskImage # Undecodable
    /\ IF Pixels(drawingSize) = {}
       THEN /\ maskPc' = "thrown"
            /\ UNCHANGED <<mask, saved, isMasking>>
       ELSE /\ mask' = MergeAutoMask(drawImageScaled(maskImage, drawingSize), maskOpacity, gco)
            /\ saved' = [saved EXCEPT !.mask = NULL]
            /\ isMasking' = FALSE
            /\ maskPc' = "idle"
    /\ maskImage' = NULL
    /\ last' = "autoMaskOnload"
    /\ UNCHANGED <<formVars, editVars, upscaleVars, sessionVars, sizeVars, base, gco, toolVars, gestureVars, maskOpacity,
                   fillVars, error, partial>>

\* variant: the canvas is cleared before the decode result is known
autoMaskOnerrorClears ==
    /\ maskPc = "decode" /\ maskImage = Undecodable
    /\ mask' = EmptyMask(drawingSize)
    /\ error' = "Failed to load the generated mask."
    /\ isMasking' = FALSE
    /\ maskPc' = "idle"
    /\ maskImage' = NULL
    /\ saved' = [saved EXCEPT !.mask = NULL]
    /\ last' = "autoMaskOnerror"
    /\ UNCHANGED <<formVars, editVars, upscaleVars, sessionVars, sizeVars, base, gco, toolVars, gestureVars,
                   maskOpacity, fillVars, partial>>

\* maskImage.onerror
autoMaskOnerror ==
    /\ maskPc = "decode" /\ maskImage = Undecodable
    /\ error' = "Failed to load the generated mask."
    /\ isMasking' = FALSE
    /\ maskPc' = "idle"
    /\ maskImage' = NULL
    /\ saved' = [saved EXCEPT !.mask = NULL]
    /\ last' = "autoMaskOnerror"
    /\ UNCHANGED <<formVars, editVars, upscaleVars, sessionVars, sizeVars, base, mask, gco, toolVars, gestureVars,
                   maskOpacity, fillVars, partial>>

(* ------------------------------------------------------ edit and upscale *)
\* prompts are strings over a blank and a letter, up to MaxPromptLen characters
Chars == {" ", "a"}
Prompts == UNION {[1..n -> Chars] : n \in 0..MaxPromptLen}

RECURSIVE TrimStart(_)
TrimStart(str) ==
    IF str # <<>> /\ Head(str) = " " THEN TrimStart(Tail(str)) ELSE str

RECURSIVE TrimEnd(_)
TrimEnd(str) ==
    IF str # <<>> /\ str[Len(str)] = " " THEN TrimEnd(SubSeq(str, 1, Len(str) - 1)) ELSE str

\* String.prototype.trim
Trim(str) == TrimEnd(TrimStart(str))

\* variant: no black fill, and the loop turns painted pixels white without
\* setting their alpha
SerializeKeepsAlpha(m) ==
    [p \in DOMAIN m |->
        IF m[p][4] > 0 THEN <<255, 255, 255, m[p][4]>> ELSE m[p]]

\* the Mask Serializer of handleSubmit: the drawing canvas drawn over a canvas
\* filled with opaque black, then every pixel of non-zero alpha turned white
Serialize(m) ==
    [p \in DOMAIN m |->
        LET c == SourceOver(m[p], <<0, 0, 0, 255>>)
        IN  IF c[4] > 0 THEN <<255, 255, 255, 255>> ELSE c]

\* what a failed remote operation is said to leave as it was
Kept == <<mask, editedImage, upscaledImage>>

\* variant: the mask is serialized on the drawing canvas itself
handleSubmitInPlace ==
    /\ editedImage' = NULL
    /\ upscaledImage' = NULL
    /\ IF Trim(prompt) = <<>>
       THEN /\ error' = "Please draw a mask and enter a prompt."
            /\ isLoading' = FALSE
            /\ UNCHANGED <<editPc, sentMask, edits>>
       ELSE IF Pixels(drawingSize) = {}
       THEN \* drawImage of a canvas with no pixels (line 389) throws InvalidStateError
            /\ error' = NoError
            /\ isLoading' = TRUE
            /\ editPc' = "thrown"
            /\ UNCHANGED <<sentMask, edits>>
       ELSE /\ error' = NoError
            /\ isLoading' = TRUE
            /\ sentMask' = Serialize(mask)
            /\ editPc' = "request"
            /\ edits' = edits + 1
    /\ mask' = IF Trim(prompt) = <<>> THEN mask ELSE Serialize(mask)
    /\ saved' = [saved EXCEPT !.edit = Kept]
    /\ last' = "handleSubmit"
    /\ UNCHANGED <<formVars, isUpscaling, upscalePc, upscaleArgs, sessionVars, sizeVars, base, gco,
                   toolVars, gestureVars, autoMaskVars, fillVars, partial>>

\* handleSubmit, from its first statement to its first await or return
handleSubmit ==
    /\ editedImage' = NULL
    /\ upscaledImage' = NULL
    /\ IF Trim(prompt) = <<>>
       THEN /\ error' = "Please draw a mask and enter a prompt."
            /\ isLoading' = FALSE
            /\ UNCHANGED <<editPc, sentMask, edits>>
       ELSE IF Pixels(drawingSize) = {}
       THEN \* drawImage of a canvas with no pixels (line 389) throws InvalidStateError
            /\ error' = NoError
            /\ isLoading' = TRUE
            /\ editPc' = "thrown"
            /\ UNCHANGED <<sentMask, edits>>
       ELSE /\ error' = NoError
            /\ isLoading' = TRUE
            /\ sentMask' = Serialize(mask)
            /\ editPc' = "request"
            /\ edits' = edits + 1
    /\ saved' = [saved EXCEPT !.edit = Kept]
    /\ last' = "handleSubmit"
    /\ UNCHANGED <<formVars, isUpscaling, upscalePc, upscaleArgs, sessionVars, sizeVars, base, mask, gco,
                   toolVars, gestureVars, autoMaskVars, fillVars, partial>>

\* the Generate button: disabled while isLoading or while the prompt trims to nothing
generateClick ==
    /\ ~isLoading /\ Trim(prompt) # <<>>
    /\ edits < MaxEdits
    /\ handleSubmit

\* editImageWithMask resolves: setEditedImage, then the finally block
editResolve ==
    /\ editPc = "request"
    /\ editedImage' = [edit |-> edits]
    /\ isLoading' = FALSE
    /\ editPc' = "idle"
    /\ saved' = [saved EXCEPT !.edit = NULL]
    /\ last' = "editResolve"
    /\ UNCHANGED <<formVars, sentMask, edits, upscaleVars, sessionVars, sizeVars, base, mask, gco,
                   toolVars, gestureVars, autoMaskVars, fillVars, error, partial>>

\* fileToBase64 or editImageWithMask rejects: the catch block, then finally
editReject ==
    /\ editPc = "request"
    /\ error' = "Failed to edit image"
    /\ isLoading' = FALSE
    /\ editPc' = "idle"
    /\ saved' = [saved EXCEPT !.edit = NULL]
    /\ last' = "editReject"
    /\ UNCHANGED <<formVars, editedImage, sentMask, edits, upscaleVars, sessionVars, sizeVars,
                   base, mask, gco, toolVars, gestureVars, autoMaskVars, fillVars, partial>>

\* handleUpscale, to its first await or return
handleUpscale ==
    /\ IF editedImage = NULL
       THEN /\ error' = "Generate an image before upscaling."
            /\ UNCHANGED <<isUpscaling, upscalePc, upscaleArgs, saved>>
       ELSE /\ isUpscaling' = TRUE
            /\ error' = NoError
            /\ upscaleArgs' = <<editedImage, upscaleFactor>>
            /\ upscalePc' = "request"
            /\ saved' = [saved EXCEPT !.upscale = Kept]
    /\ last' = "handleUpscale"
    /\ UNCHANGED <<formVars, editVars, upscaledImage, sessionVars, sizeVars, base, mask, gco,
                   toolVars, gestureVars, autoMaskVars, fillVars, partial>>

\* variant: the Upscale button is not disabled while isUpscaling
upscaleClickWhileBusy ==
    /\ editedImage # NULL /\ ~isLoading
    /\ handleUpscale

\* the Upscale button: rendered when editedImage && !isLoading, disabled while isUpscaling
upscaleClick ==
    /\ editedImage # NULL /\ ~isLoading /\ ~isUpscaling
    /\ handleUpscale

\* upscaleImage resolves: setUpscaledImage, then the finally block
upscaleResolve ==
    /\ upscalePc = "request"
    /\ upscaledImage' = [of |-> upscaleArgs[1], factor |-> upscaleArgs[2]]
    /\ isUpscaling' = FALSE
    /\ upscalePc' = "idle"
    /\ upscaleArgs' = NULL
    /\ saved' = [saved EXCEPT !.upscale = NULL]
    /\ last' = "upscaleResolve"
    /\ UNCHANGED <<formVars, editVars, sessionVars, sizeVars, base, mask, gco, toolVars, gestureVars,
                   autoMaskVars, fillVars, error, partial>>

\* upscaleImage rejects: the catch block, then finally
upscaleReject ==
    /\ upscalePc = "request"
    /\ error' = "Failed to upscale image"
    /\ isUpscaling' = FALSE
    /\ upscalePc' = "idle"
    /\ upscaleArgs' = NULL
    /\ saved' = [saved EXCEPT !.upscale = NULL]
    /\ last' = "upscaleReject"
    /\ UNCHANGED <<formVars, editVars, upscaledImage, sessionVars, sizeVars, base, mask, gco,
                   toolVars, gestureVars, autoMaskVars, fillVars, partial>>

\* the prompt textarea: disabled while isLoading
setPrompt(str) ==
    /\ ~isLoading
    /\ str # prompt
    /\ prompt' = str
    /\ last' = "setPrompt"
    /\ UNCHANGED <<upscaleFactor, editVars, upscaleVars, saved, sessionVars, sizeVars, base, mask, gco,
                   toolVars, gestureVars, autoMaskVars, fillVars, error, partial>>

\* the upscale selector: rendered when editedImage && !isLoading, disabled while isUpscaling
setUpscaleFactor(f) ==
    /\ editedImage # NULL /\ ~isLoading /\ ~isUpscaling
    /\ f # upscaleFactor
    /\ upscaleFactor' = f
    /\ last' = "setUpscaleFactor"
    /\ UNCHANGED <<prompt, editVars, upscaleVars, saved, sessionVars, sizeVars, base, mask, gco,
                   toolVars, gestureVars, autoMaskVars, fillVars, error, partial>>

(* ------------------------------------------------------ the download link *)
\* the link is rendered when editedImage && !isLoading and !isUpscaling
DownloadOffered == editedImage # NULL /\ ~isLoading /\ ~isUpscaling

\* href={upscaledImage || editedImage}
DownloadHref == IF upscaledImage # NULL THEN upscaledImage ELSE editedImage

\* download={`edited-image-${upscaledImage ? `${upscaleFactor}x-upscaled` : 'final'}.png`}
DownloadName ==
    IF upscaledImage # NULL
    THEN <<"edited-image-", upscaleFactor, "x-upscaled", ".png">>
    ELSE <<"edited-image-", "final", ".png">>

(* -------------------------------------------------------- specifications *)
\* the state of a mounted editor with canvases of size sz
EditorState(sz, img, m, tool, op, edited) ==
    /\ imageSize = sz
    /\ drawingSize = sz
    /\ base = img
    /\ mask = m
    /\ gco = "source-over"
    /\ activeTool = tool
    /\ brushSize = DefaultBrushSize
    /\ brushOpacity = op
    /\ isDrawing = FALSE
    /\ lastPoint = NULL
    /\ shapeStartPoint = NULL
    /\ canvasSnapshot = NULL
    /\ isMasking = FALSE
    /\ maskPc = "idle"
    /\ maskOpacity = NULL
    /\ maskImage = NULL
    /\ fillPc = "idle"
    /\ startPos = NULL
    /\ pixelStack = <<>>
    /\ visited = {}
    /\ drawingImageData = NULL
    /\ prompt = <<>>
    /\ editedImage = edited
    /\ upscaledImage = NULL
    /\ upscaleFactor = 2
    /\ isLoading = FALSE
    /\ isUpscaling = FALSE
    /\ editPc = "idle"
    /\ sentMask = NULL
    /\ upscalePc = "idle"
    /\ upscaleArgs = NULL
    /\ error = NoError
    /\ partial = 0
    /\ edits = 0
    /\ saved = [mask |-> NULL, edit |-> NULL, upscale |-> NULL]
    /\ last = "load"

\* the state of the first editor mounted, once its image has loaded into a canvas of size sz
Loaded(sz, img, m, tool, op, edited) ==
    /\ EditorState(sz, img, m, tool, op, edited)
    /\ imagePc = "loaded"
    /\ session = 1
    /\ orphans = {}
    /\ natural = sz
    /\ resized = sz

\* a photo with a dark left column and a light rest
Photo(sz) == [p \in Pixels(sz) |-> IF p[1] = 0 THEN <<10, 10, 10>> ELSE <<240, 240, 240>>]

AutoMaskNext ==
    \/ handleAutoMask /\ UNCHANGED saved
    \/ \E img \in MaskResponses(drawingSize) : autoMaskResolve(img)
    \/ autoMaskReject
    \/ autoMaskOnload
    \/ autoMaskOnerror

GestureNext ==
    \/ \E pos \in Points(drawingSize) : handleMouseDown(pos)
    \/ \E pos \in Points(drawingSize) : handleMouseMove(pos)
    \/ handleMouseUp
    \/ clearDrawing

\* The editor's canvas with the opacity slider at 1.0: every tool, gestures,
\* clear and the auto-mask merge.
Init == Loaded(<<W, H>>, Photo(<<W, H>>), EmptyMask(<<W, H>>), "brush", 10, NULL)

Next ==
    \/ GestureNext
    \/ \E t \in Tools : setActiveTool(t)
    \/ AutoMaskNext

Spec == Init /\ [][Next]_vars

\* The brush, the eraser and the fill tool at any opacity of the sample, with a
\* bounded number of translucent strokes.
InitStroke ==
    \E op \in Opacities :
        Loaded(<<W, H>>, Photo(<<W, H>>), EmptyMask(<<W, H>>), "brush", op, NULL)

NextStroke ==
    \/ GestureNext
    \/ \E t \in {"brush", "eraser", "fill"} : setActiveTool(t)
    \/ \E o \in Opacities : setBrushOpacity(o)

SpecStroke == InitStroke /\ [][NextStroke]_vars

\* masks left by earlier fills at opacity 0.7
PaintedMasks(sz) == [Pixels(sz) -> {Transparent, Accent(7)}]

\* The remote operations of an editor whose mask has been painted and that may
\* show the result of an earlier edit: prompt, Generate, Upscale, auto-mask.
InitRemote ==
    \E m \in PaintedMasks(<<W, H>>), edited \in {NULL, [edit |-> 0]} :
        Loaded(<<W, H>>, Photo(<<W, H>>), m, "brush", 10, edited)

NextRemote ==
    \/ \E str \in Prompts : setPrompt(str)
    \/ generateClick
    \/ editResolve
    \/ editReject
    \/ upscaleClick
    \/ upscaleResolve
    \/ upscaleReject
    \/ \E f \in {2, 4} : setUpscaleFactor(f)
    \/ handleAutoMask /\ saved' = [saved EXCEPT !.mask = Kept]
    \/ \E img \in MaskResponses(drawingSize) : autoMaskResolve(img)
    \/ autoMaskReject
    \/ autoMaskOnload
    \/ autoMaskOnerror

SpecRemote == InitRemote /\ [][NextRemote]_vars

\* a mask whose left column is painted at opacity 0.7
LeftPainted(sz) == [p \in Pixels(sz) |-> IF p[1] = 0 THEN Accent(7) ELSE Transparent]

\* what generateBackgroundMask resolves with in the specifications below: an
\* all-white mask, a mask white in its left column, or data that is no image
SomeMaskResponses(sz) ==
    {[p \in Pixels(sz) |-> White],
     [p \in Pixels(sz) |-> IF p[1] = 0 THEN White ELSE Black],
     Undecodable}

\* The remote operations through the page's controls, on an empty or a
\* half-painted mask, with or without the result of an earlier edit.
InitOps ==
    \E m \in {EmptyMask(<<W, H>>), LeftPainted(<<W, H>>)}, edited \in {NULL, [edit |-> 0]} :
        Loaded(<<W, H>>, Photo(<<W, H>>), m, "brush", 10, edited)

NextOps ==
    \/ \E str \in Prompts : setPrompt(str)
    \/ generateClick
    \/ editResolve
    \/ editReject
    \/ upscaleClick
    \/ upscaleResolve
    \/ upscaleReject
    \/ \E f \in {2, 4} : setUpscaleFactor(f)
    \/ handleAutoMask /\ saved' = [saved EXCEPT !.mask = Kept]
    \/ \E img \in SomeMaskResponses(drawingSize) : autoMaskResolve(img)
    \/ autoMaskReject
    \/ autoMaskOnload
    \/ autoMaskOnerror

SpecOps == InitOps /\ [][NextOps]_vars

\* handleSubmit called as a function, whatever the prompt (the Generate button's
\* disabled attribute keeps a blank prompt from reaching it through the page)
handleSubmitCall ==
    /\ ~isLoading
    /\ edits < MaxEdits
    /\ handleSubmit

SpecHandler == InitOps /\ [][NextOps \/ handleSubmitCall]_vars

\* alpha values the drawing canvas can hold: nothing, the faintest trace, what
\* the eraser leaves of a stroke at opacity 0.7, such a stroke, full opacity
MaskAlphas == {0, 1, 53, 179, 255}

\* The editor with any mask over these alpha values, the prompt and Generate.
InitSerialize ==
    \E m \in [Pixels(<<W, H>>) ->
                 {IF a = 0 THEN Transparent ELSE <<192, 132, 252, a>> : a \in MaskAlphas}] :
        Loaded(<<W, H>>, Photo(<<W, H>>), m, "brush", 7, NULL)

NextSerialize ==
    \/ \E str \in Prompts : setPrompt(str)
    \/ generateClick
    \/ editResolve
    \/ editReject

SpecSerialize == InitSerialize /\ [][NextSerialize]_vars

(* ------------------------------------------------------ the remote clients *)
\* how many parts a provider response carries at most
MaxParts == 2

\* a part of a response: text, or inline data that is a PNG image or is not
Parts == {[text |-> "words"], [inlineData |-> "png"], [inlineData |-> "junk"]}

\* what generateContent comes back with: a failure of the request, a response
\* with no candidate, or a response whose first candidate carries some parts
Responses ==
    {[failed |-> TRUE, candidates |-> <<>>], [failed |-> FALSE, candidates |-> <<>>]}
    \cup {[failed |-> FALSE, candidates |-> <<ps>>] : ps \in UNION {[1..n -> Parts] : n \in 0..MaxParts}}

\* the responses in which no part carries inline data
NoImageData ==
    {r \in Responses :
        /\ ~r.failed
        /\ \A i \in 1..Len(r.candidates) :
               \A j \in 1..Len(r.candidates[i]) : "inlineData" \notin DOMAIN r.candidates[i][j]}

\* variant: with no inline data in the parts the client returns the text of
\* the first part
ClientTakesAnyPart(r, name, nothing) ==
    IF r.failed
    THEN [ok |-> FALSE, data |-> NULL, message |-> "Failed to " \o name \o ": request failed"]
    ELSE IF r.candidates = <<>>
    THEN [ok |-> FALSE, data |-> NULL, message |-> "Failed to " \o name \o ": Cannot read properties of undefined"]
    ELSE [ok |-> TRUE, data |-> "words", message |-> NoError]

\* the body shared by the three clients after generateContent: the data of the
\* first part with inlineData is returned; a failed request, a missing
\* candidate and a response without inline data all end in the catch block,
\* which throws "Failed to <name>: <message>"
Client(r, name, nothing) ==
    IF r.failed
    THEN [ok |-> FALSE, data |-> NULL, message |-> "Failed to " \o name \o ": request failed"]
    ELSE IF r.candidates = <<>>
    THEN [ok |-> FALSE, data |-> NULL, message |-> "Failed to " \o name \o ": Cannot read properties of undefined"]
    ELSE LET parts == r.candidates[1]
             images == {j \in 1..Len(parts) : "inlineData" \in DOMAIN parts[j]}
         IN  IF images = {}
             THEN [ok |-> FALSE, data |-> NULL, message |-> "Failed to " \o name \o ": " \o nothing]
             ELSE [ok |-> TRUE,
                   data |-> parts[CHOOSE j \in images : \A i \in images : j <= i].inlineData,
                   message |-> NoError]

editImageWithMask(r) == Client(r, "edit image", "No image data found in the API response.")
generateBackgroundMask(r) == Client(r, "generate mask", "No mask data found in the API response.")
upscaleImage(r) == Client(r, "upscale image", "No upscaled image data found in the API response.")

\* the provider answers the edit call: handleSubmit from the await to its end
editSettle(r) ==
    /\ editPc = "request"
    /\ IF editImageWithMask(r).ok
       THEN /\ editedImage' = [edit |-> edits]
            /\ error' = error
       ELSE /\ error' = editImageWithMask(r).message
            /\ editedImage' = editedImage
    /\ isLoading' = FALSE
    /\ editPc' = "idle"
    /\ saved' = [saved EXCEPT !.edit = NULL]
    /\ last' = "editSettle"
    /\ UNCHANGED <<formVars, sentMask, edits, upscaleVars, sessionVars, sizeVars, base, mask, gco,
                   toolVars, gestureVars, autoMaskVars, fillVars, partial>>

\* the provider answers the upscale call: handleUpscale from the await to its end
upscaleSettle(r) ==
    /\ upscalePc = "request"
    /\ IF upscaleImage(r).ok
       THEN /\ upscaledImage' = [of |-> upscaleArgs[1], factor |-> upscaleArgs[2]]
            /\ error' = error
       ELSE /\ error' = upscaleImage(r).message
            /\ upscaledImage' = upscaledImage
    /\ isUpscaling' = FALSE
    /\ upscalePc' = "idle"
    /\ upscaleArgs' = NULL
    /\ saved' = [saved EXCEPT !.upscale = NULL]
    /\ last' = "upscaleSettle"
    /\ UNCHANGED <<formVars, editVars, sessionVars, sizeVars, base, mask, gco, toolVars, gestureVars,
                   autoMaskVars, fillVars, partial>>

\* the provider answers the auto-mask call: handleAutoMask from the await to
\* maskImage.src, or to the end of its catch block
autoMaskSettle(r) ==
    /\ maskPc = "request"
    /\ IF generateBackgroundMask(r).ok
       THEN /\ maskPc' = "decode"
            /\ maskImage' = IF generateBackgroundMask(r).data = "png"
                            THEN [p \in Pixels(drawingSize) |-> White]
                            ELSE Undecodable
            /\ UNCHANGED <<error, isMasking, saved>>
       ELSE /\ maskPc' = "idle"
            /\ error' = generateBackgroundMask(r).message
            /\ isMasking' = FALSE
            /\ saved' = [saved EXCEPT !.mask = NULL]
            /\ UNCHANGED maskImage
    /\ last' = "autoMaskSettle"
    /\ UNCHANGED <<formVars, editVars, upscaleVars, sessionVars, sizeVars, base, mask, gco, toolVars,
                   gestureVars, maskOpacity, fillVars, partial>>

\* The remote operations with the provider's answers passing through the clients.
NextClient ==
    \/ setPrompt(<<"a">>)
    \/ generateClick
    \/ \E r \in Responses : editSettle(r)
    \/ upscaleClick
    \/ \E r \in Responses : upscaleSettle(r)
    \/ handleAutoMask /\ saved' = [saved EXCEPT !.mask = Kept]
    \/ \E r \in Responses : autoMaskSettle(r)
    \/ autoMaskOnload
    \/ autoMaskOnerror

SpecClient == InitOps /\ [][NextClient]_vars

\* variant: the start point is moved to the nearest pixel of the canvas
floodFillStartClamped(pos) ==
    /\ fillPc = "idle"
    /\ fillPc' = "loop"
    /\ startPos' = pos
    /\ pixelStack' = << <<Max(0, Min(imageSize[1] - 1, pos[1])), Max(0, Min(imageSize[2] - 1, pos[2]))>> >>
    /\ visited' = {}
    /\ drawingImageData' = mask
    /\ last' = "floodFill"
    /\ UNCHANGED <<remoteVars, sessionVars, sizeVars, base, mask, gco, toolVars, gestureVars,
                   autoMaskVars, error, partial>>

\* variant: the visited markers of the previous call are used again
floodFillStartKeepsVisited(pos) ==
    /\ fillPc = "idle"
    /\ fillPc' = "loop"
    /\ startPos' = pos
    /\ pixelStack' = <<pos>>
    /\ drawingImageData' = mask
    /\ last' = "floodFill"
    /\ UNCHANGED <<visited, remoteVars, sessionVars, sizeVars, base, mask, gco, toolVars, gestureVars,
                   autoMaskVars, error, partial>>

(* ------------------------------------------- floodFill, one iteration a step *)
\* floodFill(startPos) up to its while loop
floodFillStart(pos) ==
    /\ fillPc = "idle"
    /\ fillPc' = "loop"
    /\ startPos' = pos
    /\ pixelStack' = <<pos>>
    /\ visited' = {}
    /\ drawingImageData' = mask
    /\ last' = "floodFill"
    /\ UNCHANGED <<remoteVars, sessionVars, sizeVars, base, mask, gco, toolVars, gestureVars,
                   autoMaskVars, error, partial>>

\* one iteration of while (pixelStack.length > 0)
floodFillStep ==
    /\ fillPc = "loop" /\ pixelStack # <<>>
    /\ LET f == FillStep([stack |-> pixelStack, visited |-> visited,
                          data |-> drawingImageData],
                         imageSize, base, StartColour(imageSize, base, startPos),
                         FillColor(brushOpacity))
       IN  /\ pixelStack' = f.stack
           /\ visited' = f.visited
           /\ drawingImageData' = f.data
    /\ UNCHANGED <<fillPc, startPos, last, remoteVars, sessionVars, sizeVars, base, mask, gco,
                   toolVars, gestureVars, autoMaskVars, error, partial>>

\* drawingCtx.putImageData(drawingImageData, 0, 0)
floodFillPut ==
    /\ fillPc = "loop" /\ pixelStack = <<>>
    /\ mask' = drawingImageData
    /\ fillPc' = "done"
    /\ UNCHANGED <<startPos, pixelStack, visited, drawingImageData, last, remoteVars,
                   sessionVars, sizeVars, base, gco, toolVars, gestureVars, autoMaskVars, error, partial>>

FillColours == {<<100, 100, 100>>, <<130, 130, 130>>, <<100, 100, 131>>}

\* photos of vertical or of horizontal stripes, each stripe grey, a grey 30
\* lighter in every channel, or a grey with 31 more blue
FillPhotos(sz) ==
    {[p \in Pixels(sz) |-> c[p[1]]] : c \in [0..(sz[1] - 1) -> FillColours]}
        \cup {[p \in Pixels(sz) |-> c[p[2]]] : c \in [0..(sz[2] - 1) -> FillColours]}

\* masks with up to MaxMasked pixels painted opaque
FillMasks(sz) ==
    {[p \in Pixels(sz) |-> IF p \in S THEN Accent(10) ELSE Transparent] :
        S \in {T \in SUBSET Pixels(sz) : Cardinality(T) <= MaxMasked}}

\* where the pointer may go down: on a pixel, or just off the right or the left edge
FillStarts(sz) ==
    Pixels(sz) \cup {<<sz[1], 0>>, <<-1, 0>>}

\* One floodFill call on a FillW x FillH canvas, for every photo, mask, opacity
\* and start point of the sets above.
InitFill ==
    \E img \in FillPhotos(<<FillW, FillH>>), m \in FillMasks(<<FillW, FillH>>),
       op \in Opacities :
        Loaded(<<FillW, FillH>>, img, m, "fill", op, NULL)

NextFill ==
    \/ \E pos \in FillStarts(imageSize) : floodFillStart(pos)
    \/ floodFillStep
    \/ floodFillPut

SpecFill == InitFill /\ [][NextFill]_vars

\* the while loop is synchronous code: once entered, its iterations and the
\* putImageData after it run
SpecFillFair == SpecFill /\ WF_vars(floodFillStep) /\ WF_vars(floodFillPut)

\* the Clear button after a floodFill call has returned; what the call was
\* started at and what it painted is kept in saved.mask
clearAfterFill ==
    /\ fillPc = "done" /\ saved.mask = NULL
    /\ fillPc' = "idle"
    /\ mask' = EmptyMask(drawingSize)
    /\ saved' = [saved EXCEPT !.mask = <<startPos, mask>>]
    /\ last' = "clearDrawing"
    /\ UNCHANGED <<startPos, pixelStack, visited, drawingImageData, formVars, editVars, upscaleVars,
                   sessionVars, sizeVars, base, gco, toolVars, gestureVars, autoMaskVars, error, partial>>

\* floodFill on an empty mask, Clear, and floodFill once more at the same point.
InitFillTwice ==
    \E img \in FillPhotos(<<FillW, FillH>>), op \in Opacities :
        Loaded(<<FillW, FillH>>, img, EmptyMask(<<FillW, FillH>>), "fill", op, NULL)

NextFillTwice ==
    \/ \E pos \in (IF saved.mask = NULL THEN FillStarts(imageSize) ELSE {saved.mask[1]}) :
           floodFillStart(pos)
    \/ floodFillStep
    \/ floodFillPut
    \/ clearAfterFill

SpecFillTwice == InitFillTwice /\ [][NextFillTwice]_vars

\* the points next to the canvas: beyond its left, right, top and bottom edge,
\* and beyond its corners
OutsideStarts(sz) ==
    {p \in (-1..sz[1]) \X (-1..sz[2]) : ~InBounds(sz, p)}

\* One floodFill call started outside the canvas, for every photo, mask and
\* opacity of the sets above.
NextFillOutside ==
    \/ \E pos \in OutsideStarts(imageSize) : floodFillStart(pos)
    \/ floodFillStep
    \/ floodFillPut

SpecFillOutside == InitFill /\ [][NextFillOutside]_vars

(* ------------------------------------------------------- loading the image *)
\* the image canvas before anything is drawn on it: transparent black
Blank(sz) == [p \in Pixels(sz) |-> <<0, 0, 0>>]

\* ImageEditor just mounted on its file: canvases of their initial size, the
\* image of drawImageOnCanvas not yet decoded
Mounted(sz, op) ==
    /\ EditorState(sz, Blank(sz), EmptyMask(sz), "brush", op, NULL)
    /\ imagePc = "loading"
    /\ session = 1
    /\ orphans = {}
    /\ natural = NULL
    /\ resized = NULL

\* variant: only the image canvas is given the size of the resized image
imageOnloadImageCanvasOnly(n) ==
    /\ imagePc = "loading"
    /\ imagePc' = "loaded"
    /\ natural' = n
    /\ resized' = resizeImage(n)
    /\ imageSize' = resizeImage(n)
    /\ base' = Photo(resizeImage(n))
    /\ last' = "imageOnload"
    /\ UNCHANGED <<session, orphans, drawingSize, mask, gco, toolVars, gestureVars, autoMaskVars,
                   fillVars, remoteVars, error, partial>>

\* drawImageOnCanvas, img.onload for an image of natural size n: resizeImage,
\* then setting width and height clears both canvases and resets the drawing
\* context; the image is then drawn on the image canvas
imageOnload(n) ==
    /\ imagePc = "loading"
    /\ imagePc' = "loaded"
    /\ natural' = n
    /\ resized' = resizeImage(n)
    /\ imageSize' = resizeImage(n)
    /\ drawingSize' = resizeImage(n)
    /\ base' = Photo(resizeImage(n))
    /\ mask' = EmptyMask(resizeImage(n))
    /\ gco' = "source-over"
    /\ last' = "imageOnload"
    /\ UNCHANGED <<session, orphans, toolVars, gestureVars, autoMaskVars, fillVars,
                   remoteVars, error, partial>>

\* the first statement of img.onload alone: the call of resizeImage
resizeImageCall(n) ==
    /\ imagePc = "loading"
    /\ imagePc' = "resized"
    /\ natural' = n
    /\ resized' = resizeImage(n)
    /\ last' = "resizeImage"
    /\ UNCHANGED <<session, orphans, sizeVars, base, mask, gco, toolVars, gestureVars,
                   autoMaskVars, fillVars, remoteVars, error, partial>>

\* drawImageOnCanvas, img.onerror
imageOnerror ==
    /\ imagePc = "loading"
    /\ imagePc' = "failed"
    /\ error' = "Failed to load image."
    /\ last' = "imageOnerror"
    /\ UNCHANGED <<session, orphans, natural, resized, sizeVars, base, mask, gco, toolVars, gestureVars,
                   autoMaskVars, fillVars, remoteVars, partial>>

\* The editor mounted on a file that is no image, with the opacity slider at 1.0:
\* the load fails while the canvas (a stroke tool, a shape tool, the fill tool,
\* clear), the auto-mask button, the prompt and Generate are there to be used.
NextLoad ==
    \/ imageOnerror
    \/ GestureNext
    \/ \E t \in {"brush", "rectangle", "fill"} : setActiveTool(t)
    \/ handleAutoMask /\ UNCHANGED saved
    \/ \E img \in {[p \in Pixels(drawingSize) |-> White], Undecodable} : autoMaskResolve(img)
    \/ autoMaskReject
    \/ autoMaskOnload
    \/ autoMaskOnerror
    \/ setPrompt(<<"a">>)
    \/ generateClick
    \/ editResolve
    \/ editReject

SpecLoad == Mounted(<<W, H>>, 10) /\ [][NextLoad]_vars

\* The editor from its mount on a landscape or a portrait image that loads or
\* fails to load, with the opacity slider at 1.0: the canvas (brush, rectangle,
\* fill, clear) and the auto-mask merge, before and after the load.
NextSizes ==
    \/ \E n \in {<<W, H>>, <<H, W>>} : imageOnload(n)
    \/ imageOnerror
    \/ GestureNext
    \/ \E t \in {"brush", "rectangle", "fill"} : setActiveTool(t)
    \/ handleAutoMask /\ UNCHANGED saved
    \/ \E img \in {[p \in Pixels(drawingSize) |-> White], Undecodable} : autoMaskResolve(img)
    \/ autoMaskReject
    \/ autoMaskOnload
    \/ autoMaskOnerror

SpecSizes == Mounted(<<W, H>>, 10) /\ [][NextSizes]_vars

(* ------------------------------------------------- Start Over, a new image *)
\* how many editors are mounted one after another
MaxSessions == 2

\* the calls of the mounted editor that have not settled: the edit and upscale
\* calls, and the auto-mask call up to the load of the image it returned
Pending ==
    {[op |-> "edit", pc |-> "request", owner |-> session, image |-> NULL] : b \in {editPc} \cap {"request"}}
    \cup {[op |-> "upscale", pc |-> "request", owner |-> session, image |-> NULL] :
             b \in {upscalePc} \cap {"request"}}
    \cup {[op |-> "mask", pc |-> maskPc, owner |-> session, image |-> maskImage] :
             b \in {maskPc} \cap {"request", "decode"}}

\* App.handleReset: setOriginalImage(null) unmounts the editor, and its state
\* and canvases go with it; no call is aborted
handleReset ==
    /\ imagePc # "none"
    /\ imagePc' = "none"
    /\ orphans' = orphans \cup Pending
    /\ imageSize' = <<W, H>> /\ drawingSize' = <<W, H>>
    /\ base' = Blank(<<W, H>>) /\ mask' = EmptyMask(<<W, H>>) /\ gco' = "source-over"
    /\ activeTool' = "brush" /\ brushSize' = DefaultBrushSize /\ brushOpacity' = 10
    /\ isDrawing' = FALSE /\ lastPoint' = NULL /\ shapeStartPoint' = NULL /\ canvasSnapshot' = NULL
    /\ isMasking' = FALSE /\ maskPc' = "idle" /\ maskOpacity' = NULL /\ maskImage' = NULL
    /\ prompt' = <<>> /\ upscaleFactor' = 2
    /\ editedImage' = NULL /\ isLoading' = FALSE /\ editPc' = "idle" /\ sentMask' = NULL /\ edits' = 0
    /\ upscaledImage' = NULL /\ isUpscaling' = FALSE /\ upscalePc' = "idle" /\ upscaleArgs' = NULL
    /\ error' = NoError
    /\ saved' = [mask |-> NULL, edit |-> NULL, upscale |-> NULL]
    /\ last' = "handleReset"
    /\ natural' = NULL /\ resized' = NULL
    /\ UNCHANGED <<session, fillVars, partial>>

\* App.handleImageUpload: setOriginalImage(file) mounts a new editor, whose
\* effect starts loading the file
handleImageUpload ==
    /\ imagePc = "none"
    /\ session < MaxSessions
    /\ imagePc' = "loading"
    /\ session' = session + 1
    /\ last' = "handleImageUpload"
    /\ UNCHANGED <<orphans, natural, resized, sizeVars, base, mask, gco, toolVars, gestureVars, autoMaskVars,
                   fillVars, remoteVars, error, partial>>

\* variant: a state setter reaches whichever editor is mounted
SetStateOfMounted(owner, new, old) == IF imagePc # "none" THEN new ELSE old

\* a state setter captured by a closure of the editor mounted in session owner:
\* React drops the update once that editor is unmounted
SetState(owner, new, old) == IF owner = session /\ imagePc # "none" THEN new ELSE old

\* drawingCanvasRef.current seen by a closure of the editor mounted in session
\* owner: React sets it to null when that editor unmounts
DrawingCanvasAttached(owner) == owner = session /\ imagePc # "none"

\* a call left behind by an unmounted editor settles (ok: it resolves, or the
\* image it returned loads) and its continuation runs
orphanSettle(o, ok) ==
    /\ o \in orphans
    /\ orphans' = IF o.op = "mask" /\ o.pc = "request" /\ ok
                  THEN (orphans \ {o}) \cup {[o EXCEPT !.pc = "decode", !.image = [p \in Pixels(<<W, H>>) |-> White]]}
                  ELSE orphans \ {o}
    /\ isLoading' = IF o.op = "edit" THEN SetState(o.owner, FALSE, isLoading) ELSE isLoading
    /\ editedImage' = IF o.op = "edit" /\ ok
                      THEN SetState(o.owner, [edit |-> 1], editedImage) ELSE editedImage
    /\ isUpscaling' = IF o.op = "upscale" THEN SetState(o.owner, FALSE, isUpscaling) ELSE isUpscaling
    /\ upscaledImage' = IF o.op = "upscale" /\ ok
                        THEN SetState(o.owner, [of |-> [edit |-> 1], factor |-> 2], upscaledImage)
                        ELSE upscaledImage
    /\ isMasking' = IF o.op = "mask" /\ ~(o.pc = "request" /\ ok)
                    THEN SetState(o.owner, FALSE, isMasking) ELSE isMasking
    /\ mask' = IF o.op = "mask" /\ o.pc = "decode" /\ ok /\ DrawingCanvasAttached(o.owner)
               THEN MergeAutoMask(o.image, 10, gco) ELSE mask
    /\ error' = IF o.op = "mask" /\ o.pc = "decode" /\ ok /\ ~DrawingCanvasAttached(o.owner)
                THEN SetState(o.owner, "Drawing canvas not available.", error)
                ELSE IF ok THEN error
                ELSE SetState(o.owner, "Failed", error)
    /\ last' = "orphanSettle"
    /\ UNCHANGED <<imagePc, session, natural, resized, sizeVars, base, gco, toolVars, gestureVars, maskPc, maskOpacity,
                   maskImage, fillVars, formVars, editPc, sentMask, edits, upscalePc, upscaleArgs,
                   saved, partial>>

\* Editors mounted one after another on photos of the same size, each with
\* its remote operations, and the calls its predecessors left behind.
NextSession ==
    \/ handleReset
    \/ handleImageUpload
    \/ imageOnload(<<W, H>>)
    \/ imagePc # "none" /\ setPrompt(<<"a">>)
    \/ imagePc # "none" /\ generateClick
    \/ editResolve
    \/ editReject
    \/ upscaleClick
    \/ upscaleResolve
    \/ upscaleReject
    \/ imagePc # "none" /\ handleAutoMask /\ UNCHANGED saved
    \/ autoMaskResolve([p \in Pixels(drawingSize) |-> White])
    \/ autoMaskReject
    \/ autoMaskOnload
    \/ \E o \in orphans, ok \in BOOLEAN : orphanSettle(o, ok)

SpecSession == Mounted(<<W, H>>, 10) /\ [][NextSession]_vars

(* ------------------------------------------- images of every proportion *)
\* natural sizes: a small image, and a strip one pixel thin and more than
\* twice MAX_DIMENSION long, lying or standing
NaturalSizes == {<<W, H>>, <<2 * MAX_DIMENSION + 1, 1>>, <<1, 2 * MAX_DIMENSION + 1>>}

NextThin ==
    \/ \E n \in NaturalSizes : imageOnload(n)
    \/ setPrompt(<<"a">>)
    \/ generateClick
    \/ editResolve
    \/ editReject
    \/ upscaleClick
    \/ upscaleResolve
    \/ upscaleReject
    \/ \E f \in {2, 4} : setUpscaleFactor(f)
    \/ handleAutoMask /\ UNCHANGED saved
    \/ \E img \in SomeMaskResponses(drawingSize) : autoMaskResolve(img)
    \/ autoMaskReject
    \/ autoMaskOnload
    \/ autoMaskOnerror

SpecThin == Mounted(<<W, H>>, 10) /\ [][NextThin]_vars

\* side lengths of the images resizeImage is applied to: short and long sides
\* around MAX_DIMENSION and its double, and a strip 49 * 2048 long
Lengths == {1, 2, 3, 147, 512, 1000, 1023, 1024, 1025, 2000, 2048, 2049, 100352}

\* resizeImage applied to images of every size over these lengths
NextResize == \E n \in Lengths \X Lengths : resizeImageCall(n)

SpecResize == Mounted(<<W, H>>, 10) /\ [][NextResize]_vars

(* ---------------------------------------------------------------- claims *)
\* C1: when handleSubmit builds the mask it sends, every pixel whose drawing-canvas
\* alpha is above 0 goes out as (255,255,255,255) and every pixel whose alpha is
\* 0 goes out as (0,0,0,0).
C1_SerializedMaskIsBinary ==
    [][(editPc = "idle" /\ editPc' = "request") =>
        \A p \in Pixels(drawingSize) :
            sentMask'[p] = IF mask[p][4] > 0 THEN <<255, 255, 255, 255>>
                           ELSE Transparent]_vars

\* C2: handleSubmit with a prompt that trims to nothing makes no call to the edit
\* client, reports an error, and leaves editedImage and upscaledImage as they were.
C2_BlankPromptKeepsResult ==
    [][(~isLoading /\ Trim(prompt) = <<>> /\ last' = "handleSubmit") =>
        /\ editPc' = "idle"
        /\ error' # NoError
        /\ editedImage' = editedImage
        /\ upscaledImage' = upscaledImage]_vars

\* C3: when an auto-mask, edit or upscale call fails, the mask, editedImage and
\* upscaledImage are what they were just before the operation was triggered,
\* and an error message is set.
C3_FailureKeepsState ==
    [][/\ (editPc = "request" /\ last' = "editReject") =>
            (Kept' = saved.edit /\ error' # NoError)
       /\ (upscalePc = "request" /\ last' = "upscaleReject") =>
            (Kept' = saved.upscale /\ error' # NoError)
       /\ (maskPc # "idle" /\ last' \in {"autoMaskReject", "autoMaskOnerror"}) =>
            (Kept' = saved.mask /\ error' # NoError)]_vars

\* C4: when an auto-mask call succeeds with normalized output Y, the mask is Y at
\* every pixel afterwards, whatever was drawn before and whichever tool drew last.
C4_AutoMaskReplacesMask ==
    [][(maskPc = "decode" /\ last' = "autoMaskOnload") =>
        mask' = MergeAutoMask(maskImage, maskOpacity, "source-over")]_vars

\* C5: after an eraser stroke, at any opacity, every pixel the stroke covers has
\* alpha 0, whatever was painted there before.
C5_EraserClears ==
    [][(activeTool = "eraser" /\ isDrawing /\ lastPoint # NULL /\ last' = "mouseMove") =>
        \A p \in StrokePixels(drawingSize, lastPoint, lastPoint', brushSize) :
            mask'[p][4] = 0]_vars

\* C6: when an edit call succeeds, editedImage is the image that call returned and
\* upscaledImage is empty, however an upscale call started before the submit
\* interleaves with it.
C6_EditSuccessDropsUpscale ==
    [][(editPc = "request" /\ last' = "editResolve") =>
        /\ editedImage' = [edit |-> edits]
        /\ upscaledImage' = NULL]_vars

\* the pixels a fill from s may paint: unmasked in m, and within Tolerance of the
\* photo's pixel at s in each of R, G, B
Eligible(sz, img, m, s) ==
    {p \in Pixels(sz) : /\ m[p][4] = 0
                        /\ \A i \in 1..3 : Abs(img[p][i] - img[s][i]) <= Tolerance}

Adjacent(p, q) == Abs(p[1] - q[1]) + Abs(p[2] - q[2]) = 1

RECURSIVE Grow(_, _)
Grow(S, E) ==
    LET N == S \cup {q \in E : \E p \in S : Adjacent(p, q)}
    IN  IF N = S THEN S ELSE Grow(N, E)

\* the 4-connected component of s in the eligible pixels
Component(sz, img, m, s) ==
    LET E == Eligible(sz, img, m, s)
    IN  IF s \in E THEN Grow({s}, E) ELSE {}

\* C7: a mask pixel of alpha above 0 before floodFill has the same RGBA value
\* while the loop runs and after the call, and popping such a pixel pushes none
\* of its neighbours.
C7_FillKeepsMaskedPixels ==
    /\ [](fillPc = "loop" =>
            \A p \in Pixels(drawingSize) :
                mask[p][4] > 0 => drawingImageData[p] = mask[p])
    /\ [][/\ (fillPc = "loop" /\ fillPc' = "done") =>
                \A p \in Pixels(drawingSize) : mask[p][4] > 0 => mask'[p] = mask[p]
          /\ (/\ fillPc = "loop" /\ fillPc' = "loop" /\ pixelStack # <<>>
              /\ InBounds(imageSize, pixelStack[Len(pixelStack)])
              /\ mask[pixelStack[Len(pixelStack)]][4] > 0) =>
                pixelStack' = SubSeq(pixelStack, 1, Len(pixelStack) - 1)]_vars

\* a fill at opacity 0.7 has painted its start pixel and stopped at opaque mask
\* pixels, leaving unpainted a pixel whose colour is within the tolerance
C7_Witness ==
    /\ fillPc = "done" /\ brushOpacity = 7
    /\ InBounds(imageSize, startPos)
    /\ mask[startPos] = FillColor(7)
    /\ \E q \in Pixels(drawingSize) : mask[q][4] = 255
    /\ \E r \in Pixels(drawingSize) :
        mask[r][4] = 0 /\ WithinTolerance(base[r], base[startPos])

\* C8: for a start point s inside the image, floodFill writes exactly the
\* 4-connected component of s among the pixels that were unmasked and are within
\* 30 of s in each of R, G, B of the photo; each gets (192, 132, 252,
\* round(255 * opacity)) and every other mask pixel keeps its value.
C8_FillPaintsComponent ==
    [][(fillPc = "loop" /\ fillPc' = "done" /\ InBounds(imageSize, startPos)) =>
        mask' = [p \in Pixels(drawingSize) |->
                    IF p \in Component(imageSize, base, mask, startPos)
                    THEN <<192, 132, 252, RoundDiv(255 * brushOpacity, 10)>>
                    ELSE mask[p]]]_vars

\* a fill at opacity 0.7 from a grey pixel has painted two pixels or more and left
\* unpainted an unmasked pixel that is 31 away in blue
C8_Witness ==
    /\ fillPc = "done" /\ brushOpacity = 7
    /\ InBounds(imageSize, startPos)
    /\ base[startPos] = <<100, 100, 100>>
    /\ Cardinality({p \in Pixels(drawingSize) : mask[p][4] = 179}) >= 2
    /\ \E r \in Pixels(drawingSize) : mask[r][4] = 0 /\ base[r] = <<100, 100, 131>>

GestureIdle == lastPoint = NULL /\ shapeStartPoint = NULL /\ canvasSnapshot = NULL

\* C9: whenever isDrawing is false, lastPoint, shapeStartPoint and canvasSnapshot
\* are empty; the pointer-up / pointer-leave handler resets isDrawing and the
\* three fields under every tool; a pointer-down with the fill tool changes
\* none of them.
C9_GestureStateInvariant ==
    /\ [](~isDrawing => GestureIdle)
    /\ [][/\ last' = "mouseUp" => (~isDrawing' /\ GestureIdle')
          /\ (activeTool = "fill" /\ last' = "mouseDown") =>
                UNCHANGED gestureVars]_vars

\* a gesture has painted, and the pointer has gone up under a shape tool
C9_Witness ==
    /\ last = "mouseUp" /\ ~isDrawing
    /\ activeTool \in {"rectangle", "circle"}
    /\ mask # EmptyMask(drawingSize)

\* C10: when the segmentation call rejects or its image fails to decode, no step
\* of the auto-mask operation has written the mask (none clears it, none writes
\* part of it), an error message is set and isMasking is false.
C10_AutoMaskFailureAtomic ==
    [][/\ (maskPc # "idle" /\ last' \in {"autoMaskReject", "autoMaskOnerror"}) =>
            /\ mask' = mask
            /\ error' # NoError
            /\ ~isMasking'
       /\ last' \in {"handleAutoMask", "autoMaskResolve"} => mask' = mask]_vars

\* a painted mask has come through a decode failure
C10_Witness ==
    /\ last = "autoMaskOnerror" /\ ~isMasking
    /\ error = "Failed to load the generated mask."
    /\ mask # EmptyMask(drawingSize)

\* C11: once the image has failed to load, nothing changes the mask and no
\* submit sends a request to the edit client.
C11_LoadFailureBlocksEditing ==
    [][imagePc = "failed" =>
        /\ mask' = mask
        /\ ~(editPc = "idle" /\ editPc' = "request")]_vars

\* C12: while a gesture is active (isDrawing is set), a further pointer-down
\* leaves the gesture's last point, shape origin and snapshot as they are.
C12_OneGestureAtATime ==
    [][(isDrawing /\ last' = "mouseDown") =>
        UNCHANGED <<lastPoint, shapeStartPoint, canvasSnapshot>>]_vars

\* C13: while an auto-mask request is pending (isMasking is set), no pointer
\* event on the canvas and no press of the clear button changes the mask.
C13_NoDrawingWhileMasking ==
    [][(isMasking /\ last' \in {"mouseDown", "mouseMove", "mouseUp", "clearDrawing"}) =>
        mask' = mask]_vars

\* C14: each of isMasking, isLoading and isUpscaling is set exactly while its
\* operation's call is in flight, and an operation is triggered only while its
\* flag is clear, so the mounted editor never has two calls of a kind in flight.
C14_BusyGating ==
    /\ [](/\ isLoading <=> editPc = "request"
          /\ isUpscaling <=> upscalePc = "request"
          /\ isMasking <=> maskPc # "idle")
    /\ [][/\ last' = "handleSubmit" => ~isLoading
          /\ last' = "handleUpscale" => ~isUpscaling
          /\ last' = "handleAutoMask" => ~isMasking]_vars

\* the mounted editor has one auto-mask call and one edit call in flight, its
\* flags set, beside an edit call that an earlier editor left behind
C14_Witness ==
    /\ isMasking /\ isLoading
    /\ maskPc = "request" /\ editPc = "request"
    /\ \E o \in orphans : o.op = "edit"

\* C14 as stated: in every reachable state at most one call of each kind is in
\* flight, the calls left behind by unmounted editors counted with the calls of
\* the mounted one.
C14_OneCallOfEachKind ==
    \A k \in {"edit", "upscale", "mask"} :
        Cardinality({o \in orphans \cup Pending : o.op = k}) <= 1

\* C15: every step that ends a remote operation (the call resolved or rejected
\* and, for auto-mask, the returned image decoded or failed to decode) leaves
\* the operation's busy flag false.
C15_SettleClearsBusy ==
    [][/\ last' \in {"editResolve", "editReject"} => ~isLoading'
       /\ last' \in {"upscaleResolve", "upscaleReject"} => ~isUpscaling'
       /\ last' \in {"autoMaskReject", "autoMaskOnload", "autoMaskOnerror"} => ~isMasking']_vars

\* C16: when a call left behind by an editor that Start Over unmounted resolves
\* or fails (or the mask image it returned loads), the mask, the current result,
\* the upscaled result and the three busy flags of the editor mounted since are
\* unchanged.
C16_AbandonedCallsIgnored ==
    [][last' = "orphanSettle" =>
          UNCHANGED <<mask, editedImage, upscaledImage, isMasking, isLoading, isUpscaling>>]_vars

\* a call of the first editor has settled while the second editor, its image
\* loaded, is busy with a call of its own
C16_Witness ==
    /\ last = "orphanSettle"
    /\ session = 2 /\ imagePc = "loaded"
    /\ isLoading /\ editedImage = NULL

\* C17: whenever a download is offered, it is the upscaled result if there is
\* one and the edited result otherwise, and the factor in the name of an
\* upscaled download is the factor that was sent to produce that result.
C17_DownloadNaming ==
    DownloadOffered =>
        IF upscaledImage # NULL
        THEN /\ DownloadHref = upscaledImage
             /\ DownloadName = <<"edited-image-", upscaledImage.factor, "x-upscaled", ".png">>
        ELSE /\ DownloadHref = editedImage
             /\ DownloadName = <<"edited-image-", "final", ".png">>

\* C18: handleSubmit (rejected, failed or successful) and handleUpscale, with
\* the continuations of their calls, leave every pixel of the mask and of the
\* photo as it was; an edit result changes editedImage and not upscaledImage,
\* an upscale result changes upscaledImage and not editedImage.
C18_ResultsLeaveMask ==
    [][/\ last' \in {"handleSubmit", "editResolve", "editReject",
                     "handleUpscale", "upscaleResolve", "upscaleReject"}
            => UNCHANGED <<mask, base>>
       /\ last' = "editResolve" => UNCHANGED upscaledImage
       /\ last' = "upscaleResolve" => UNCHANGED editedImage]_vars

\* an upscale of an edit made with a painted mask has resolved, the mask still painted
C18_Witness ==
    /\ last = "upscaleResolve"
    /\ upscaledImage # NULL /\ editedImage = [edit |-> 1]
    /\ mask = LeftPainted(drawingSize)

\* C19: every pixel of the serialized mask handed to the edit call has alpha
\* exactly 0 or exactly 255, whatever the drawing canvas held.
C19_SerializedAlphaBinary ==
    sentMask # NULL => \A p \in DOMAIN sentMask : sentMask[p][4] \in {0, 255}

\* a mask with a translucent pixel and an untouched pixel has been serialized
C19_Witness ==
    /\ last = "handleSubmit" /\ sentMask = Serialize(mask)
    /\ \E p, q \in DOMAIN mask : mask[p][4] = 179 /\ mask[q] = Transparent

\* C20: when the provider's answer to an edit, upscale or auto-mask call has
\* no image data, the caller's continuation sets an error message, clears the
\* operation's busy flag, ends the operation, and leaves the current result,
\* the upscaled result and the mask as they were: what it does when the request
\* itself fails, the wording of the message apart.
C20_NoImageDataIsFailure ==
    [][\A r \in NoImageData :
          /\ editSettle(r) =>
                 /\ error' # NoError /\ ~isLoading' /\ editPc' = "idle"
                 /\ UNCHANGED <<editedImage, upscaledImage, mask>>
          /\ upscaleSettle(r) =>
                 /\ error' # NoError /\ ~isUpscaling' /\ upscalePc' = "idle"
                 /\ UNCHANGED <<editedImage, upscaledImage, mask>>
          /\ autoMaskSettle(r) =>
                 /\ error' # NoError /\ ~isMasking' /\ maskPc' = "idle"
                 /\ UNCHANGED <<editedImage, upscaledImage, mask>>]_vars

\* an upscale call was answered with text only: the error names the missing
\* data, the flag is clear and the edited result is still the only result
C20_Witness ==
    /\ last = "upscaleSettle"
    /\ error = "Failed to upscale image: No upscaled image data found in the API response."
    /\ ~isUpscaling /\ upscaledImage = NULL /\ editedImage # NULL

\* the longer and the shorter side of a size
Longer(n) == IF n[1] > n[2] THEN n[1] ELSE n[2]
Shorter(n) == IF n[1] > n[2] THEN n[2] ELSE n[1]

\* shorter * 1024 / longer, rounded to the nearest integer in exact arithmetic
ExactShorter(n) == RoundDiv(Shorter(n) * MAX_DIMENSION, Longer(n))

\* shorter * 1024 / longer lies exactly halfway between two integers
Halfway(n) ==
    /\ (2 * Shorter(n) * MAX_DIMENSION) % Longer(n) = 0
    /\ ((2 * Shorter(n) * MAX_DIMENSION) \div Longer(n)) % 2 = 1

\* C21 as stated: a size within 1024 x 1024 is returned unchanged; otherwise the
\* longer side becomes exactly 1024 and the shorter side becomes
\* round(shorter * 1024 / longer).
C21_ResizeExact ==
    resized # NULL =>
        IF Longer(natural) <= MAX_DIMENSION THEN resized = natural
        ELSE /\ Longer(resized) = MAX_DIMENSION
             /\ (natural[1] > natural[2]) => resized[1] = MAX_DIMENSION
             /\ Shorter(resized) = ExactShorter(natural)

\* C21: a size within 1024 x 1024 is returned unchanged; otherwise the longer
\* side becomes exactly 1024 and the shorter side becomes
\* round(shorter * 1024 / longer), or one less where that quotient lies exactly
\* halfway between two integers; neither side exceeds 1024, and 2000 x 1000
\* gives 1024 x 512.
C21_Resize ==
    resized # NULL =>
        /\ resized[1] <= MAX_DIMENSION /\ resized[2] <= MAX_DIMENSION
        /\ natural = <<2000, 1000>> => resized = <<1024, 512>>
        /\ IF Longer(natural) <= MAX_DIMENSION THEN resized = natural
           ELSE /\ Longer(resized) = MAX_DIMENSION
                /\ (natural[1] > natural[2]) => resized[1] = MAX_DIMENSION
                /\ \/ Shorter(resized) = ExactShorter(natural)
                   \/ Halfway(natural) /\ Shorter(resized) = ExactShorter(natural) - 1

\* resizeImage has returned 1024 x 512 for an image of 2000 x 1000
C21_Witness ==
    /\ last = "resizeImage"
    /\ natural = <<2000, 1000>> /\ resized = <<1024, 512>>

\* C22: a floodFill call on an empty mask paints what an earlier floodFill call
\* on an empty mask painted from the same start point, over the same photo at
\* the same opacity: the same pixels with the same values.
C22_FillDeterministic ==
    (fillPc = "done" /\ saved.mask # NULL /\ saved.mask[1] = startPos) => mask = saved.mask[2]

\* the second of two calls has returned, both having painted some pixel and
\* left another one untouched
C22_Witness ==
    /\ fillPc = "done" /\ saved.mask # NULL /\ saved.mask[1] = startPos
    /\ \E p, q \in Pixels(drawingSize) : mask[p] = FillColor(brushOpacity) /\ mask[q] = Transparent

\* C23: a floodFill call whose start point lies outside the canvas, on any side
\* or corner, paints nothing in its working copy, pushes nothing on its stack,
\* sets no error, and puts back a mask equal to the mask before the call.
C23_FillOutsideIsNoOp ==
    /\ []((fillPc # "idle" /\ ~InBounds(imageSize, startPos)) =>
             /\ drawingImageData = mask
             /\ Len(pixelStack) <= 1
             /\ error = NoError)
    /\ [][(fillPc = "loop" /\ fillPc' = "done" /\ ~InBounds(imageSize, startPos)) =>
             mask' = mask]_vars

\* a call started beyond the bottom right corner has returned; the pixel at
\* the corner is still unpainted although an earlier fill painted another one
C23_Witness ==
    /\ fillPc = "done" /\ startPos = imageSize
    /\ mask[<<imageSize[1] - 1, imageSize[2] - 1>>] = Transparent
    /\ \E p \in Pixels(imageSize) : mask[p] = Accent(10)

\* C24: in every reachable state the image canvas and the drawing canvas have
\* the same width and the same height, and each holds a pixel for every point
\* of that size.
C24_SameSize ==
    /\ imageSize = drawingSize
    /\ DOMAIN base = Pixels(imageSize)
    /\ DOMAIN mask = Pixels(drawingSize)

\* an auto-mask has been merged on the canvases of a loaded portrait image
C24_Witness ==
    /\ imagePc = "loaded" /\ natural = <<H, W>>
    /\ last = "autoMaskOnload"
    /\ imageSize = <<H, W>> /\ drawingSize = <<H, W>>
    /\ \A p \in Pixels(drawingSize) : mask[p][4] = 255


\* the mask m with one shape of tool t drawn from start to end
OneShape(m, t, start, end) ==
    Draw(m,
         IF t = "rectangle" THEN RectPixels(drawingSize, start, end)
         ELSE EllipsePixels(drawingSize, start, end),
         "source-over", Accent(brushOpacity))

\* the snapshot of the gesture in progress, alone or with one shape from its origin
SnapshotWithOneShape ==
    {canvasSnapshot} \cup
    {OneShape(canvasSnapshot, t, shapeStartPoint, pos) :
        t \in {"rectangle", "circle"}, pos \in Points(drawingSize)}

\* C25: when the pointer goes up at the end of a rectangle or circle gesture, the mask
\* is the snapshot taken at pointer-down with the single shape of the last move, or
\* the snapshot itself when there was no move
C25_PointerUpCommitsPreview ==
    [][(/\ last' = "mouseUp" /\ isDrawing
        /\ activeTool \in {"rectangle", "circle"}
        /\ canvasSnapshot # NULL /\ shapeStartPoint # NULL)
       => mask' \in SnapshotWithOneShape]_vars

\* right after a move of a shape gesture the mask is the snapshot with one shape
C25_MoveRedrawsFromSnapshot ==
    (/\ last = "mouseMove" /\ isDrawing
     /\ activeTool \in {"rectangle", "circle"}
     /\ canvasSnapshot # NULL /\ shapeStartPoint # NULL)
    => mask \in SnapshotWithOneShape


\* the pixel the next iteration of the fill loop pops
Popped == pixelStack[Len(pixelStack)]

\* C26: floodFill terminates and handles each pixel of the canvas at most once: the
\* loop ends with an empty stack; an iteration tests or paints the popped pixel only
\* if it is on the canvas and not yet marked, and marks it then; so the pixels
\* tested and painted are at most width * height
C26_FillTerminates ==
    /\ [](fillPc = "done" => pixelStack = <<>>)
    /\ [](fillPc # "idle" =>
            /\ visited \subseteq Pixels(imageSize)
            /\ Cardinality(visited) <= imageSize[1] * imageSize[2]
            /\ {p \in Pixels(imageSize) : drawingImageData[p] # mask[p]} \subseteq visited)
    /\ [][(fillPc = "loop" /\ pixelStack # <<>>) =>
            \/ visited' = visited /\ drawingImageData' = drawingImageData
            \/ /\ InBounds(imageSize, Popped) /\ Popped \notin visited
               /\ visited' = visited \cup {Popped}
               /\ \A q \in Pixels(imageSize) \ {Popped} :
                      drawingImageData'[q] = drawingImageData[q]]_vars
    /\ (fillPc = "loop") ~> (fillPc = "done")

\* a call that has returned after it marked every pixel of the canvas and painted some
C26_Witness ==
    /\ fillPc = "done" /\ pixelStack = <<>>
    /\ visited = Pixels(imageSize)
    /\ \E p \in Pixels(imageSize) : mask[p] = FillColor(brushOpacity)
    /\ \E p \in Pixels(imageSize) : mask[p] = Transparent


\* C27: whenever an upscaled result is present, a current result is present and the
\* upscaled result is the upscale of that current result
C27_UpscaledOfCurrent ==
    upscaledImage # NULL => (editedImage # NULL /\ upscaledImage.of = editedImage)


\* the pixels a shape of the active tool covers
ShapePixels(start, end) ==
    IF activeTool = "rectangle" THEN RectPixels(drawingSize, start, end)
    ELSE EllipsePixels(drawingSize, start, end)

\* C28: when the auto-mask merge has completed during a rectangle or circle drag, the
\* next move of the drag changes only pixels the shape covers; elsewhere the merged
\* content stays
C28_MergedMaskStays ==
    [][(/\ last = "autoMaskOnload" /\ last' = "mouseMove" /\ isDrawing
        /\ activeTool \in {"rectangle", "circle"}
        /\ canvasSnapshot # NULL /\ shapeStartPoint # NULL)
       => \E pos \in Points(drawingSize) :
              \A p \in Pixels(drawingSize) \ ShapePixels(shapeStartPoint, pos) :
                  mask'[p] = mask[p]]_vars


\* C29: for an image of positive width and height resizeImage returns a width and a
\* height of at least 1
C29_ResizedPositive ==
    (resized # NULL /\ natural[1] >= 1 /\ natural[2] >= 1)
        => (resized[1] >= 1 /\ resized[2] >= 1)

====
